---------------------------- MODULE Spec2Model ----------------------------
(***************************************************************************)
(* A model of the maubot-fedora plugin (src/fedora/__init__.py): the       *)
(* identity resolver _get_fasuser, the group queries, the Pagure issue     *)
(* client, and the command handlers that call them, run as tasks of one    *)
(* cooperative event loop.                                                 *)
(*                                                                         *)
(* A Python str is a sequence of one-character strings, so that the        *)
(* regular expressions and str.split of the source are computed character  *)
(* by character.  A raised exception is a value [tag |-> "raise", ...].    *)
(***************************************************************************)
EXTENDS Integers, Sequences, FiniteSets, TLC

VARIABLES fasjsonclient, loop, pc, cmd, call, answer, result, outcome

vars == <<fasjsonclient, loop, pc, cmd, call, answer, result, outcome>>

---------------------------------------------------------------------------
(* Bounds of the model.                                                    *)

\* Task slots of the event loop (commands being handled at the same time).
NumTasks == 2
\* The longest list the directory search returns.
MaxMatches == 3
\* The largest group the directory service returns.
MaxMembers == 202

\* members(): "if len(members) > 200".
MembersDumpLimit == 200

---------------------------------------------------------------------------
(* Python str helpers.                                                     *)

\* The positions of character c in s.
Positions(s, c) == {i \in 1..Len(s) : s[i] = c}

Min(S) == CHOOSE x \in S : \A y \in S : x <= y
Max(S) == CHOOSE x \in S : \A y \in S : x >= y

\* s[a..b], the empty str when a > b.
Slice(s, a, b) == IF a > b THEN <<>> ELSE SubSeq(s, a, b)

\* str.split(sep) for a one-character sep: every occurrence of sep cuts, so
\* adjacent, leading and trailing separators give empty tokens, and the
\* result always holds at least one token.
RECURSIVE Split(_, _)
Split(s, sep) ==
    IF Positions(s, sep) = {}
    THEN <<s>>
    ELSE LET i == Min(Positions(s, sep))
         IN  <<Slice(s, 1, i - 1)>> \o Split(Slice(s, i + 1, Len(s)), sep)

\* sep.join(parts) for strs.
RECURSIVE Join(_, _)
Join(parts, sep) ==
    IF parts = <<>> THEN <<>>
    ELSE IF Len(parts) = 1 THEN parts[1]
    ELSE parts[1] \o sep \o Join(Tail(parts), sep)

\* str(n) for a natural number n.
RECURSIVE Decimal(_)
Decimal(n) ==
    LET d == <<"0", "1", "2", "3", "4", "5", "6", "7", "8", "9">>
    IN  IF n < 10 THEN <<d[n + 1]>> ELSE Decimal(n \div 10) \o <<d[(n % 10) + 1]>>

\* re.findall(r"@(.*):(.*)", s) on a str without newlines: the leftmost
\* "@" that has a ":" after it starts the only match; the first group is
\* greedy, so it runs to the last ":" and the second group takes the rest.
MatrixIdFindall(s) ==
    LET ats    == Positions(s, "@")
        colons == {j \in Positions(s, ":") : ats # {} /\ j > Min(ats)}
    IN  IF ats = {} \/ colons = {}
        THEN <<>>
        ELSE LET i == Min(ats)
                 j == Max(colons)
             IN  << <<Slice(s, i + 1, j - 1), Slice(s, j + 1, Len(s))>> >>

\* re.search(r"@.*:.*", s) is not None.
MatrixIdSearch(s) ==
    \E i \in Positions(s, "@") : \E j \in Positions(s, ":") : j > i


---------------------------------------------------------------------------
(* Values: exceptions, messages, directory records.                        *)

\* The message of an exception or the text of a reply: the f-string's
\* template with the strs and the numbers formatted into it, in order.
Message(template, args, nums) ==
    [template |-> template, args |-> args, nums |-> nums, words |-> <<>>]
\* The same with words (JSON string values) formatted into it.
WordMessage(template, words) ==
    [template |-> template, args |-> <<>>, nums |-> <<>>, words |-> words]
NoMessage == Message("", <<>>, <<>>)
NoCall == [service |-> "", op |-> "", key |-> <<>>, ident |-> <<>>]

\* What a function does when run up to its next remote call, or from a
\* remote call's response to its end: it returns value, raises an exception
\* of a class, or issues a remote call and waits for the response.
Return(v) == [tag |-> "return", class |-> "", message |-> NoMessage, value |-> v, call |-> NoCall]
Raise(class) == [tag |-> "raise", class |-> class, message |-> NoMessage, value |-> <<>>, call |-> NoCall]
RemoteCall(c) == [tag |-> "call", class |-> "", message |-> NoMessage, value |-> <<>>, call |-> c]

\* class InfoGatherError(Exception): carries the user-facing message.
InfoGatherError(message) ==
    [tag |-> "raise", class |-> "InfoGatherError", message |-> message, value |-> <<>>, call |-> NoCall]

\* NL = "      \n"
NL == <<" ", " ", " ", " ", " ", " ", "\n">>

\* A user record of the directory service (a dict).
UserDict(username, timezone) ==
    [type |-> "dict", username |-> username, human_name |-> username, timezone |-> timezone]

\* sep.join(iterable): str.join raises TypeError on an item that is no str.
\* The items are directory records here, tagged with their Python type.
PyJoin(items, sep) ==
    IF \E i \in 1..Len(items) : items[i].type # "str"
    THEN Raise("TypeError")
    ELSE Return(Join([i \in 1..Len(items) |-> items[i].chars], sep))

---------------------------------------------------------------------------
(* catch_generic_fasjson_errors, the decorator of the three lookups.       *)

StartupMessage ==
    Message("Sorry, I can not give you the required information. I failed to connect to FASJSON on startup",
            <<>>, <<>>)

\* The wrapper without its check of the client.
catch_generic_fasjson_errors_unchecked(client, body) == body

\* wrapper, before func runs: "if self.fasjsonclient is None: raise";
\* body is what func does up to its first remote call.
catch_generic_fasjson_errors(client, body) ==
    IF client = "None" THEN InfoGatherError(StartupMessage) ELSE body

\* wrapper, as func ends: "except fasjson_client.errors.ClientSetupError".
catch_ClientSetupError(r) ==
    IF r.tag = "raise" /\ r.class = "ClientSetupError"
    THEN InfoGatherError(Message(
           "Sorry, I can not give you the required information. I failed to connect to FASJSON: **{e}**",
           <<>>, <<>>))
    ELSE r

---------------------------------------------------------------------------
(* _get_fasuser and its two inner lookups.                                 *)

FasCall(op, key, ident) == [service |-> "fasjson", op |-> op, key |-> key, ident |-> ident]

\* _get_person_by_username, to the get_user call.
get_person_by_username(username) == RemoteCall(FasCall("get_user", username, username))

UserMissing(username) ==
    Message("Sorry, but Fedora Accounts user '{username}' does not exist", <<username>>, <<>>)

\* _get_person_by_username, from the response of get_user: a 404 APIError
\* raises InfoGatherError; any other APIError leaves the except block and
\* reaches "return person" with person unbound; an exception of another
\* class leaves the function.
get_person_by_username_resume(username, resp) ==
    IF resp.kind = "ok" THEN Return(resp.result)
    ELSE IF resp.kind = "APIError"
         THEN IF resp.code = 404
              THEN InfoGatherError(UserMissing(username))
              ELSE Raise("UnboundLocalError")
         ELSE Raise(resp.kind)

HomeServer == <<"f", "e", "d", "o", "r", "a", ".", "i", "m">>

SearchTerm(matrix_server, matrix_username) ==
    <<"m", "a", "t", "r", "i", "x", ":", "/", "/">> \o matrix_server \o <<"/">> \o matrix_username

\* "except ValueError or IndexError": the expression after except is
\* evaluated first, and "ValueError or IndexError" is ValueError.
MatrixIdExcept == {"ValueError"}

InvalidMatrixId(username) ==
    Message("Sorry, {username} does not look like a valid matrix user ID (e.g. @username:homeserver.com )",
            <<username>>, <<>>)

\* _get_users_by_matrix_id without the branch for the home server.
get_users_by_matrix_id_always_search(username) ==
    LET found == MatrixIdFindall(username)
    IN  IF found = <<>>
        THEN Raise("IndexError")
        ELSE RemoteCall(FasCall("search", SearchTerm(found[1][2], found[1][1]), username))

\* _get_users_by_matrix_id, to its remote call.  [0] on an empty findall
\* result raises IndexError inside the try block.
get_users_by_matrix_id(username) ==
    LET found == MatrixIdFindall(username)
    IN  IF found = <<>>
        THEN IF "IndexError" \in MatrixIdExcept
             THEN InfoGatherError(InvalidMatrixId(username))
             ELSE Raise("IndexError")
        ELSE LET matrix_username == found[1][1]
                 matrix_server   == found[1][2]
             IN  IF matrix_server = HomeServer
                 THEN get_person_by_username(matrix_username)
                 ELSE RemoteCall(FasCall("search",
                                         SearchTerm(matrix_server, matrix_username),
                                         username))

NoMapping(username) ==
    Message("No Fedora Accounts users have the {username} Matrix Account defined", <<username>>, <<>>)

SeveralMappings(username, n, names) ==
    Message("{len(searchresult)} Fedora Accounts users have the {username} Matrix Account defined:{NL}{names}",
            <<username, names>>, <<n>>)

\* _get_users_by_matrix_id, from the response of search.  No except clause
\* surrounds the call, so every exception leaves the function.
get_users_by_matrix_id_resume(username, resp) ==
    IF resp.kind # "ok" THEN Raise(resp.kind)
    ELSE LET searchresult == resp.result
         IN  IF Len(searchresult) > 1
             THEN LET names == PyJoin(searchresult, NL)
                  IN  IF names.tag = "raise" THEN names
                      ELSE InfoGatherError(SeveralMappings(username, Len(searchresult), names.value))
             ELSE IF Len(searchresult) = 0
             THEN InfoGatherError(NoMapping(username))
             ELSE Return(<<searchresult[1]>>)

\* re.findall(r'href=[\'"]?http[s]?://matrix.to/#/([^\'" >]+)', formatted_body):
\* the formatted body is the sequence of its anchors, each a host and the
\* text after "/#/"; the targets of the matrix.to anchors, in order.
RECURSIVE MentionsFindall(_)
MentionsFindall(formatted_body) ==
    IF formatted_body = <<>> THEN <<>>
    ELSE LET a == Head(formatted_body)
         IN  (IF a.host = "matrix.to" /\ a.target # <<>> THEN <<a.target>> ELSE <<>>)
             \o MentionsFindall(Tail(formatted_body))

OneAtATime == Message("Sorry, I can only look up one username at a time", <<>>, <<>>)

\* The body of _get_fasuser with the plain-text argument split and counted
\* before the formatted body is searched.
get_fasuser_body_text_first(username0, evt) ==
    LET username == IF username0 = <<>> THEN evt.sender ELSE username0
        u == MentionsFindall(evt.formatted_body)
        usernames == Split(username, " ")
    IN  IF Len(usernames) > 1 THEN InfoGatherError(OneAtATime)
        ELSE IF evt.formatted_body # <<>> /\ Len(u) > 1 THEN InfoGatherError(OneAtATime)
        ELSE IF evt.formatted_body # <<>> /\ Len(u) = 1 THEN get_users_by_matrix_id(u[1])
        ELSE IF MatrixIdSearch(usernames[1]) THEN get_users_by_matrix_id(usernames[1])
        ELSE get_person_by_username(usernames[1])

\* The body of _get_fasuser, to its remote call.
get_fasuser_body(username0, evt) ==
    LET username == IF username0 = <<>> THEN evt.sender ELSE username0
        u == MentionsFindall(evt.formatted_body)
        usernames == Split(username, " ")
    IN  IF evt.formatted_body # <<>> /\ Len(u) > 1 THEN InfoGatherError(OneAtATime)
        ELSE IF evt.formatted_body # <<>> /\ Len(u) = 1 THEN get_users_by_matrix_id(u[1])
        ELSE IF Len(usernames) > 1 THEN InfoGatherError(OneAtATime)
        ELSE IF MatrixIdSearch(usernames[1]) THEN get_users_by_matrix_id(usernames[1])
        ELSE get_person_by_username(usernames[1])

\* _get_fasuser as decorated, to its remote call.
get_fasuser(client, username, evt) ==
    catch_generic_fasjson_errors(client, get_fasuser_body(username, evt))

\* _get_fasuser as decorated, from the response of its remote call.
get_fasuser_resume(c, resp) ==
    catch_ClientSetupError(
        IF c.op = "get_user"
        THEN get_person_by_username_resume(c.ident, resp)
        ELSE get_users_by_matrix_id_resume(c.ident, resp))

---------------------------------------------------------------------------
(* _get_group_members and _get_group_sponsors.                             *)

GroupMissing(groupname) ==
    Message("Sorry, but group '{groupname}' does not exist", <<groupname>>, <<>>)

get_group_members(client, groupname) ==
    catch_generic_fasjson_errors(
        client, RemoteCall(FasCall("list_group_members", groupname, groupname)))

get_group_sponsors(client, groupname) ==
    catch_generic_fasjson_errors(
        client, RemoteCall(FasCall("list_group_sponsors", groupname, groupname)))

\* Both, from the response: as _get_person_by_username, a non-404 APIError
\* reaches the return statement with its variable unbound.
get_group_resume(groupname, resp) ==
    catch_ClientSetupError(
        IF resp.kind = "ok" THEN Return(resp.result)
        ELSE IF resp.kind = "APIError"
             THEN IF resp.code = 404
                  THEN InfoGatherError(GroupMissing(groupname))
                  ELSE Raise("UnboundLocalError")
             ELSE Raise(resp.kind))

---------------------------------------------------------------------------
(* _get_pagure_issue.                                                      *)

\* self.pagure_url, from the configuration.
pagure_url == <<"p", "/">>

\* _get_pagure_issue, to "await client.get(endpoint)".
get_pagure_issue(project, issue_id, namespace) ==
    RemoteCall([service |-> "pagure", op |-> "GET",
                key |-> pagure_url \o Join(<<namespace, project, <<"i", "s", "s", "u", "e">>, issue_id>>, <<"/">>),
                ident |-> project])

\* _get_pagure_issue, from the response.  response.json() runs before the
\* status is looked at, and json.get needs the body to be a JSON object.
get_pagure_issue_resume(project, issue_id, response) ==
    IF response.kind # "response" THEN Raise(response.kind)
    ELSE IF response.json.type = "invalid" THEN Raise("JSONDecodeError")
    ELSE IF response.status_code = 404
    THEN IF response.json.type # "dict" THEN Raise("AttributeError")
         ELSE IF response.json.error_code = "ENOPROJECT"
         THEN InfoGatherError(Message("Project {project} not found", <<project>>, <<>>))
         ELSE IF response.json.error_code = "ENOISSUE"
         THEN InfoGatherError(Message("Issue #{issue_id} not found on {project} project",
                                      <<issue_id, project>>, <<>>))
         ELSE InfoGatherError(WordMessage("Issue querying Pagure: {error_code}: {error}",
                                          <<response.json.error_code, response.json.error>>))
    ELSE IF response.status_code # 200
    THEN InfoGatherError(Message("Issue querying Pagure: {response.status_code}: {response.reason_phrase}",
                                 <<>>, <<response.status_code>>))
    ELSE Return(<<response.json>>)

---------------------------------------------------------------------------
(* The command handlers.  A handler ends with the replies it sent and the  *)
(* class of the exception that left it ("" when none did).                 *)
(* Sending a reply (await evt.respond) is part of the step that ends the   *)
(* handler: the wait for the homeserver is not a step of its own.          *)

Replied(message) == [replies |-> <<message>>, raised |-> ""]
Crashed(class) == [replies |-> <<>>, raised |-> class]
Silent == [replies |-> <<>>, raised |-> ""]
NoOutcome == [replies |-> <<>>, raised |-> "-"]

\* "except InfoGatherError as e: await evt.respond(e.message); return":
\* an exception of any other class leaves the handler.
Excepted(r) == IF r.class = "InfoGatherError" THEN Replied(r.message) ELSE Crashed(r.class)

\* hello, from the result r of _get_fasuser.
hello(c, r) ==
    IF r.tag = "raise" THEN Excepted(r)
    ELSE LET u == r.value[1]
         IN  Replied(Message("{user['human_name']} ({user['username']})",
                             <<u.human_name, u.username>>, <<>>))

\* user, from the result r of _get_fasuser.
user(c, r) ==
    IF r.tag = "raise" THEN Excepted(r)
    ELSE LET u == r.value[1]
         IN  Replied(Message("User: {username}, Name: {human_name}, ... Timezone: {timezone}, ...",
                             <<u.username, u.human_name>>, <<>>))

\* localtime, from the result r of _get_fasuser.
localtime(c, r) ==
    IF r.tag = "raise" THEN Excepted(r)
    ELSE LET u == r.value[1]
         IN  IF u.timezone = "None"
             THEN Replied(Message("User '%s' doesn't share their timezone", <<u.username>>, <<>>))
             ELSE IF u.timezone \notin {"UTC"}
             THEN Replied(Message("The timezone of '%s' was unknown: '%s'", <<u.username>>, <<>>))
             ELSE Replied(Message("The current local time of '%s' is: '%s' (timezone: %s)",
                                  <<u.username>>, <<>>))

GroupnameRequired(command) ==
    WordMessage("groupname argument is required. e.g. !{command} designteam", <<command>>)

\* members with the list cut at 200 entries and more, not at more than 200.
members_from_200(c, r) ==
    IF r.tag = "raise" THEN Excepted(r)
    ELSE LET groupname == c.args[1]
             ms == r.value
         IN  IF Len(ms) >= MembersDumpLimit
             THEN Replied(Message("{groupname} has {len(members)} and thats too much to dump here",
                                  <<groupname>>, <<Len(ms)>>))
             ELSE Replied(Message("Members of {groupname}: {', '.join(...)}",
                                  <<groupname>> \o [i \in 1..Len(ms) |-> ms[i].username], <<>>))

\* members, from the result r of _get_group_members.
members(c, r) ==
    IF r.tag = "raise" THEN Excepted(r)
    ELSE LET groupname == c.args[1]
             ms == r.value
         IN  IF Len(ms) > MembersDumpLimit
             THEN Replied(Message("{groupname} has {len(members)} and thats too much to dump here",
                                  <<groupname>>, <<Len(ms)>>))
             ELSE Replied(Message("Members of {groupname}: {', '.join(...)}",
                                  <<groupname>> \o [i \in 1..Len(ms) |-> ms[i].username], <<>>))

\* sponsors, from the result r of _get_group_sponsors.
sponsors(c, r) ==
    IF r.tag = "raise" THEN Excepted(r)
    ELSE LET groupname == c.args[1]
             ss == r.value
         IN  Replied(Message("Sponsors of {groupname}: {', '.join(...)}",
                             <<groupname>> \o [i \in 1..Len(ss) |-> ss[i].username], <<>>))

\* pagureissue, fpc and epel, from the result r of _get_pagure_issue:
\* issue.get needs the issue to be a JSON object.
pagureissue(project, c, r) ==
    IF r.tag = "raise" THEN Excepted(r)
    ELSE LET issue == r.value[1]
         IN  IF issue.type # "dict" THEN Crashed("AttributeError")
             ELSE Replied(Message("[{project} #{issue_id}]({full_url}): {title}",
                                  <<project, c.args[Len(c.args)]>>, <<>>))

\* fesco, from the result r of _get_pagure_issue: the handler ends after
\* "full_url = issue.get('full_url')" and sends nothing.
fesco(c, r) ==
    IF r.tag = "raise" THEN Excepted(r)
    ELSE LET issue == r.value[1]
         IN  IF issue.type # "dict" THEN Crashed("AttributeError") ELSE Silent

RegistryUrl == <<"r", "/">>

\* whoowns, from the response of requests.get(url + package).
whoowns(c, req) ==
    LET package == c.args[1]
    IN  IF req.kind # "response" THEN Crashed(req.kind)
        ELSE IF req.status_code = 404
        THEN Replied(Message("Package %s not found.", <<package>>, <<>>))
        ELSE IF req.json.type = "invalid" THEN Crashed("JSONDecodeError")
        ELSE IF req.json.type # "dict" THEN Crashed("TypeError")
        ELSE IF ~req.json.has_access_users THEN Crashed("KeyError")
        ELSE LET owners     == Join(req.json.owner, <<",", " ">>)
                 admins     == Join(req.json.admin, <<",", " ">>)
                 committers == Join(req.json.commit, <<",", " ">>)
             IN  Replied(Message("{owners}{admins}{committers}",
                                 SelectSeq(<<owners, admins, committers>>, LAMBDA x : x # <<>>),
                                 <<>>))

---------------------------------------------------------------------------
\* The projects of fpc, epel and fesco.
PACKAGING == <<"p", "a", "c", "k", "a", "g", "i", "n", "g", "-", "c", "o", "m", "m", "i", "t", "t", "e", "e">>
EPEL == <<"e", "p", "e", "l">>
FESCO == <<"f", "e", "s", "c", "o">>

(* Dispatch: each handler to its remote call, and from the call's result.  *)

Respond(message) ==
    [tag |-> "respond", class |-> "", message |-> message, value |-> <<>>, call |-> NoCall]

UserCommands == {"hello", "user", "localtime"}
GroupCommands == {"members", "sponsors"}
IssueCommands == {"pagureissue", "fpc", "epel", "fesco"}

\* The project a tracker command asks for: its first argument, or the
\* literal of the alias command.
ProjectOf(c) ==
    CASE c.name = "pagureissue" -> c.args[1]
      [] c.name = "fpc" -> PACKAGING
      [] c.name = "epel" -> EPEL
      [] c.name = "fesco" -> FESCO

IssueIdOf(c) == c.args[Len(c.args)]

Evt(c) == [sender |-> c.sender, formatted_body |-> c.formatted_body]

\* A handler from its start to its first remote call.
HandlerBegin(client, c) ==
    CASE c.name \in UserCommands -> get_fasuser(client, c.args[1], Evt(c))
      [] c.name = "members" ->
           IF c.args[1] = <<>> THEN Respond(GroupnameRequired("members"))
           ELSE get_group_members(client, c.args[1])
      [] c.name = "sponsors" ->
           IF c.args[1] = <<>> THEN Respond(GroupnameRequired("sponsors"))
           ELSE get_group_sponsors(client, c.args[1])
      [] c.name \in IssueCommands -> get_pagure_issue(ProjectOf(c), IssueIdOf(c), <<>>)
      [] c.name = "whoowns" ->
           RemoteCall([service |-> "registry", op |-> "GET",
                       key |-> RegistryUrl \o c.args[1], ident |-> c.args[1]])

\* A handler from the result r of its lookup to its end.
HandlerEnd(c, r) ==
    IF r.tag = "respond" THEN Replied(r.message)
    ELSE CASE c.name = "hello" -> hello(c, r)
           [] c.name = "user" -> user(c, r)
           [] c.name = "localtime" -> localtime(c, r)
           [] c.name = "members" -> members(c, r)
           [] c.name = "sponsors" -> sponsors(c, r)
           [] c.name \in {"pagureissue", "fpc", "epel"} -> pagureissue(ProjectOf(c), c, r)
           [] c.name = "fesco" -> fesco(c, r)

\* The lookup of a handler from the response of its remote call k.
LookupResume(c, k, resp) ==
    CASE c.name \in UserCommands -> get_fasuser_resume(k, resp)
      [] c.name \in GroupCommands -> get_group_resume(c.args[1], resp)
      [] c.name \in IssueCommands -> get_pagure_issue_resume(ProjectOf(c), IssueIdOf(c), resp)

---------------------------------------------------------------------------
(* The environment: what users send and what the services answer.          *)

Bob == <<"b", "o", "b">>
Amy == <<"a", "m", "y">>
OtherServer == <<"x", ".", "o", "r", "g">>
MatrixId(localpart, server) == <<"@">> \o localpart \o <<":">> \o server

\* Raw username arguments: none, a username, Matrix ids of the home server
\* and of another one, a localpart holding a colon, an empty localpart,
\* text before the "@", an "@" without a colon, and tokens separated by a
\* space, a tab or two spaces, or with a space after or before them.
RawUsernames ==
    { <<>>, Bob,
      MatrixId(Bob, HomeServer), MatrixId(Bob, OtherServer),
      MatrixId(<<"a", ":", "b">>, HomeServer), MatrixId(<<"a", ":", "b">>, OtherServer),
      MatrixId(<<>>, OtherServer),
      <<"x">> \o MatrixId(Bob, HomeServer),
      <<"@">> \o Bob,
      Bob \o <<" ">> \o Amy, Bob \o <<"\t">> \o Amy, Bob \o <<" ">>,
      <<" ">> \o Bob, Bob \o <<" ", " ">> \o Amy,
      MatrixId(Bob, HomeServer) \o <<" ">> \o MatrixId(Amy, OtherServer) }

Senders == { MatrixId(Amy, HomeServer), MatrixId(Amy, OtherServer) }

Anchor(host, target) == [host |-> host, target |-> target]
RoomAlias == <<"#", "r", ":">> \o OtherServer

\* Formatted bodies: no anchor, one mention (home server, other server),
\* a room link, a link to another site, and two links.
FormattedBodies ==
    { <<>>,
      <<Anchor("matrix.to", MatrixId(Bob, HomeServer))>>,
      <<Anchor("matrix.to", MatrixId(Amy, OtherServer))>>,
      <<Anchor("matrix.to", RoomAlias)>>,
      <<Anchor("example.org", MatrixId(Bob, HomeServer))>>,
      <<Anchor("matrix.to", MatrixId(Bob, HomeServer)), Anchor("matrix.to", MatrixId(Amy, OtherServer))>>,
      <<Anchor("matrix.to", MatrixId(Amy, OtherServer)), Anchor("matrix.to", RoomAlias)>> }

Command(name, args, sender, formatted_body) ==
    [name |-> name, args |-> args, sender |-> sender, formatted_body |-> formatted_body]
NoCommand == Command("", <<>>, <<>>, <<>>)

Groups == { <<>>, <<"q", "a">> }
Projects == { EPEL, <<"n", "o", "n", "e">> }
IssueIds == { <<"1">>, <<"9", "9">> }
Packages == { <<"k", "e", "r", "n", "e", "l">> }

\* Every command the framework can hand to a handler.
Commands ==
    { Command(n, <<u>>, s, f) : n \in UserCommands, u \in RawUsernames, s \in Senders, f \in FormattedBodies }
    \cup { Command(n, <<g>>, s, <<>>) : n \in GroupCommands, g \in Groups, s \in Senders }
    \cup { Command("pagureissue", <<p, i>>, s, <<>>) : p \in Projects, i \in IssueIds, s \in Senders }
    \cup { Command(n, <<i>>, s, <<>>) : n \in {"fpc", "epel", "fesco"}, i \in IssueIds, s \in Senders }
    \cup { Command("whoowns", <<p>>, s, <<>>) : p \in Packages, s \in Senders }

\* A few of them, for the runs with several commands in flight.
FewCommands ==
    { Command("hello", <<Bob>>, MatrixId(Amy, HomeServer), <<>>),
      Command("members", <<<<"q", "a">>>>, MatrixId(Amy, HomeServer), <<>>),
      Command("epel", <<<<"1">>>>, MatrixId(Amy, HomeServer), <<>>),
      Command("whoowns", <<<<"k", "e", "r", "n", "e", "l">>>>, MatrixId(Amy, HomeServer), <<>>) }

Timezones == {"None", "UTC", "Mars/Phobos"}

FasAnswer(kind, code, res) == [kind |-> kind, code |-> code, result |-> res]

\* The i-th record of a list the directory service returns.
Listed(prefix, i) == UserDict(prefix \o Decimal(i), "UTC")
ListOf(prefix, n) == [i \in 1..n |-> Listed(prefix, i)]

GroupSizes == 0..2 \cup (MembersDumpLimit - 1)..MaxMembers

\* What a call of the directory client can end with: its result, an
\* APIError (404 or another code), a ClientSetupError, or a transport
\* error of the requests library.
FasAnswers(k) ==
    (CASE k.op = "get_user" -> { FasAnswer("ok", 0, <<UserDict(k.key, tz)>>) : tz \in Timezones }
       [] k.op = "search" -> { FasAnswer("ok", 0, ListOf(<<"u">>, n)) : n \in 0..MaxMatches }
       [] OTHER -> { FasAnswer("ok", 0, ListOf(<<"m">>, n)) : n \in GroupSizes })
    \cup { FasAnswer("APIError", 404, <<>>), FasAnswer("APIError", 500, <<>>),
           FasAnswer("ClientSetupError", 0, <<>>), FasAnswer("ConnectionError", 0, <<>>) }

Json(type, error_code, has_access_users, owner, admin, commit) ==
    [type |-> type, error_code |-> error_code, error |-> "",
     has_access_users |-> has_access_users, owner |-> owner, admin |-> admin, commit |-> commit]

HttpAnswer(kind, status_code, json) == [kind |-> kind, status_code |-> status_code, json |-> json]

\* The bodies of the tracker: a JSON object (an issue, or an error with
\* its code), a JSON array, and a body that is no JSON.
PagureBodies ==
    { Json("dict", e, FALSE, <<>>, <<>>, <<>>) : e \in {"", "ENOPROJECT", "ENOISSUE", "ETRACKERDISABLED"} }
    \cup { Json("list", "", FALSE, <<>>, <<>>, <<>>), Json("invalid", "", FALSE, <<>>, <<>>, <<>>) }

PagureAnswers ==
    { HttpAnswer("response", st, b) : st \in {200, 404, 500}, b \in PagureBodies }
    \cup { HttpAnswer("ConnectError", 0, Json("invalid", "", FALSE, <<>>, <<>>, <<>>)) }

\* The bodies of the package registry.
RegistryBodies ==
    { Json("dict", "", TRUE, <<Bob>>, <<>>, <<Bob, Amy>>),
      Json("dict", "", TRUE, <<>>, <<>>, <<>>),
      Json("dict", "", FALSE, <<>>, <<>>, <<>>),
      Json("list", "", FALSE, <<>>, <<>>, <<>>),
      Json("invalid", "", FALSE, <<>>, <<>>, <<>>) }

RegistryAnswers ==
    { HttpAnswer("response", st, b) : st \in {200, 404, 500}, b \in RegistryBodies }
    \cup { HttpAnswer("ConnectionError", 0, Json("invalid", "", FALSE, <<>>, <<>>, <<>>)) }

---------------------------------------------------------------------------
(* The plugin as a state machine.                                          *)
(*   fasjsonclient  "unset" before start, then "client" or "None"          *)
(*   loop           the task that holds the event loop's thread, 0 if none *)
(*   pc[t]          "idle", "ready", "blocked" (in a synchronous remote    *)
(*                  call), "awaiting" (suspended on an awaited remote      *)
(*                  call), "done"                                          *)
(*   cmd[t]         the command task t handles                             *)
(*   call[t]        the remote call task t waits for                       *)
(*   answer[t]      what that call ended with                              *)
(*   result[t]      what the lookup function of the handler returned or    *)
(*                  raised                                                 *)
(*   outcome[t]     how the handler of task t ended                        *)

NoAnswer == [kind |-> "none"]
NoResult == [tag |-> "none", class |-> "", message |-> NoMessage, value |-> <<>>, call |-> NoCall]

Tasks == 1..NumTasks

Init ==
    /\ fasjsonclient = "unset"
    /\ loop = 0
    /\ pc = [t \in Tasks |-> "idle"]
    /\ cmd = [t \in Tasks |-> NoCommand]
    /\ call = [t \in Tasks |-> NoCall]
    /\ answer = [t \in Tasks |-> NoAnswer]
    /\ result = [t \in Tasks |-> NoResult]
    /\ outcome = [t \in Tasks |-> NoOutcome]

\* start(): a ClientSetupError of fasjson_client.Client leaves None.
start(ok) ==
    /\ fasjsonclient = "unset"
    /\ fasjsonclient' = IF ok THEN "client" ELSE "None"
    /\ UNCHANGED <<loop, pc, cmd, call, answer, result, outcome>>

\* The framework receives a command and makes a task for its handler.
Receive(t, c) ==
    /\ fasjsonclient # "unset"
    /\ pc[t] = "idle"
    /\ pc' = [pc EXCEPT ![t] = "ready"]
    /\ cmd' = [cmd EXCEPT ![t] = c]
    /\ UNCHANGED <<fasjsonclient, loop, call, answer, result, outcome>>

\* Whether the handler waits for the call with await (httpx) or inside a
\* synchronous call (fasjson_client and requests), keeping the thread.
Awaited(k) == k.service = "pagure"

\* The event loop runs task t from the start of its handler to the
\* handler's remote call, or to its end when it makes none.
Dispatch(t) ==
    /\ loop = 0
    /\ pc[t] = "ready"
    /\ LET step == HandlerBegin(fasjsonclient, cmd[t])
       IN  IF step.tag = "call"
           THEN /\ call' = [call EXCEPT ![t] = step.call]
                /\ pc' = [pc EXCEPT ![t] = IF Awaited(step.call) THEN "awaiting" ELSE "blocked"]
                /\ loop' = IF Awaited(step.call) THEN 0 ELSE t
                /\ UNCHANGED <<result, outcome>>
           ELSE /\ result' = [result EXCEPT ![t] = step]
                /\ outcome' = [outcome EXCEPT ![t] = HandlerEnd(cmd[t], step)]
                /\ pc' = [pc EXCEPT ![t] = "done"]
                /\ UNCHANGED <<call, loop>>
    /\ UNCHANGED <<fasjsonclient, cmd, answer>>

\* A synchronous call of the directory client ends; the handler runs on
\* to its end and gives the thread back.
FasjsonReturns(t, resp) ==
    /\ pc[t] = "blocked"
    /\ loop = t
    /\ call[t].service = "fasjson"
    /\ answer' = [answer EXCEPT ![t] = resp]
    /\ result' = [result EXCEPT ![t] = LookupResume(cmd[t], call[t], resp)]
    /\ outcome' = [outcome EXCEPT ![t] = HandlerEnd(cmd[t], result'[t])]
    /\ pc' = [pc EXCEPT ![t] = "done"]
    /\ loop' = 0
    /\ UNCHANGED <<fasjsonclient, cmd, call>>

\* requests.get of whoowns ends.
RegistryReturns(t, resp) ==
    /\ pc[t] = "blocked"
    /\ loop = t
    /\ call[t].service = "registry"
    /\ answer' = [answer EXCEPT ![t] = resp]
    /\ outcome' = [outcome EXCEPT ![t] = whoowns(cmd[t], resp)]
    /\ pc' = [pc EXCEPT ![t] = "done"]
    /\ loop' = 0
    /\ UNCHANGED <<fasjsonclient, cmd, call, result>>

\* The awaited GET of _get_pagure_issue ends and the event loop resumes
\* the task, which runs to its end.
PagureResponds(t, resp) ==
    /\ pc[t] = "awaiting"
    /\ loop = 0
    /\ answer' = [answer EXCEPT ![t] = resp]
    /\ result' = [result EXCEPT ![t] = LookupResume(cmd[t], call[t], resp)]
    /\ outcome' = [outcome EXCEPT ![t] = HandlerEnd(cmd[t], result'[t])]
    /\ pc' = [pc EXCEPT ![t] = "done"]
    /\ UNCHANGED <<fasjsonclient, loop, cmd, call>>

\* The finished task is dropped.
Retire(t) ==
    /\ pc[t] = "done"
    /\ pc' = [pc EXCEPT ![t] = "idle"]
    /\ cmd' = [cmd EXCEPT ![t] = NoCommand]
    /\ call' = [call EXCEPT ![t] = NoCall]
    /\ answer' = [answer EXCEPT ![t] = NoAnswer]
    /\ result' = [result EXCEPT ![t] = NoResult]
    /\ outcome' = [outcome EXCEPT ![t] = NoOutcome]
    /\ UNCHANGED <<fasjsonclient, loop>>

\* The steps of the tasks in T, given commands from C.
NextOf(T, C) ==
    \/ \E ok \in BOOLEAN : start(ok)
    \/ \E t \in T, c \in C : Receive(t, c)
    \/ \E t \in T : Dispatch(t)
    \/ \E t \in T : \E resp \in FasAnswers(call[t]) : FasjsonReturns(t, resp)
    \/ \E t \in T : \E resp \in RegistryAnswers : RegistryReturns(t, resp)
    \/ \E t \in T : \E resp \in PagureAnswers : PagureResponds(t, resp)
    \/ \E t \in T : Retire(t)

\* One command at a time, every command.
Next == NextOf({1}, Commands)
Spec == Init /\ [][Next]_vars

\* Several commands in flight.
LoopNext == NextOf(Tasks, FewCommands)
LoopSpec == Init /\ [][LoopNext]_vars

---------------------------------------------------------------------------
(* The claims.                                                             *)

Done(t) == pc[t] = "done"
Waiting(t) == pc[t] \in {"blocked", "awaiting"}

\* The handler of task t calls a decorated directory lookup.
CallsLookup(t) ==
    \/ cmd[t].name \in UserCommands
    \/ cmd[t].name \in GroupCommands /\ cmd[t].args[1] # <<>>

C2_AbsentClientFailsFirst ==
    fasjsonclient = "None" =>
        \A t \in Tasks : CallsLookup(t) =>
            /\ ~Waiting(t)
            /\ call[t] = NoCall
            /\ Done(t) => /\ result[t] = InfoGatherError(StartupMessage)
                          /\ outcome[t] = Replied(StartupMessage)

\* C2's case: with the client absent, a lookup of a rich-text mention that
\* is no Matrix id has ended.
C2_Witness ==
    \E t \in Tasks :
        /\ fasjsonclient = "None"
        /\ Done(t)
        /\ cmd[t].name = "hello"
        /\ cmd[t].formatted_body = <<Anchor("matrix.to", RoomAlias)>>

\* The link targets of the rich-text mentions of command c.
Mentions(c) == MentionsFindall(c.formatted_body)

\* The plain-text argument of command c, the sender's id when it is empty.
PlainArgument(c) == IF c.args[1] = <<>> THEN c.sender ELSE c.args[1]

\* Command c hands an identity string to the chat-identity lookup: its
\* only mention, or without a mention its only token when that holds an
\* "@" before a ":".
ReachesChatLookup(c) ==
    \/ Len(Mentions(c)) = 1
    \/ /\ Mentions(c) = <<>>
       /\ Positions(PlainArgument(c), " ") = {}
       /\ \E i, j \in 1..Len(PlainArgument(c)) :
              i < j /\ PlainArgument(c)[i] = "@" /\ PlainArgument(c)[j] = ":"

ChatIdentity(c) == IF Len(Mentions(c)) = 1 THEN Mentions(c)[1] ELSE PlainArgument(c)

\* s holds no "@" followed, anywhere later, by a ":".
LacksMatrixIdShape(s) ==
    ~ \E i, j \in 1..Len(s) : i < j /\ s[i] = "@" /\ s[j] = ":"

\* C3: an identity string without the @localpart:domain shape that reaches
\* the chat-identity lookup fails with the InvalidFormat error naming the
\* expected shape, and no directory call is issued.
C3_MalformedIdentityInvalidFormat ==
    \A t \in Tasks :
        ( /\ fasjsonclient = "client"
          /\ cmd[t].name \in UserCommands
          /\ ReachesChatLookup(cmd[t])
          /\ LacksMatrixIdShape(ChatIdentity(cmd[t])) ) =>
            /\ ~Waiting(t)
            /\ call[t] = NoCall
            /\ Done(t) => result[t] = InfoGatherError(InvalidMatrixId(ChatIdentity(cmd[t])))

\* C4: a direct lookup by username whose get_user call ends with an
\* APIError fails with NotFound for that username on code 404 and with an
\* error carrying a user-facing message on any other code; it ends with a
\* user record or such an error.
C4_DirectLookupErrors ==
    \A t \in Tasks :
        ( /\ Done(t)
          /\ cmd[t].name \in UserCommands
          /\ call[t].op = "get_user"
          /\ answer[t].kind \in {"ok", "APIError"} ) =>
            /\ answer[t].kind = "ok" => result[t] = Return(answer[t].result)
            /\ (answer[t].kind = "APIError" /\ answer[t].code = 404) =>
                   result[t] = InfoGatherError(UserMissing(call[t].key))
            /\ (answer[t].kind = "APIError" /\ answer[t].code # 404) =>
                   result[t].tag = "raise" /\ result[t].class = "InfoGatherError"

\* Localparts and domains of well-formed Matrix ids (no ":" in a domain).
Localparts == {Bob, Amy, <<"a", ":", "b">>}
Domains == {HomeServer, OtherServer}

\* C5: for a chat identity of another home server the search is issued
\* with the key "matrix://" + domain + "/" + localpart, and the length of
\* its result decides: 0 NotFound, 1 that record, more than 1
\* AmbiguousMatch with the username of every candidate, one per line.
C5_SearchResultDecides ==
    \A t \in Tasks : \A lp \in Localparts, dom \in Domains \ {HomeServer} :
        ( /\ fasjsonclient = "client"
          /\ cmd[t].name \in UserCommands
          /\ ReachesChatLookup(cmd[t])
          /\ ChatIdentity(cmd[t]) = MatrixId(lp, dom)
          /\ pc[t] # "ready" ) =>
            /\ call[t] = FasCall("search", SearchTerm(dom, lp), MatrixId(lp, dom))
            /\ (Done(t) /\ answer[t].kind = "ok") =>
                 LET found == answer[t].result
                     names == [i \in 1..Len(found) |-> found[i].username]
                 IN  /\ Len(found) = 0 => result[t] = InfoGatherError(NoMapping(MatrixId(lp, dom)))
                     /\ Len(found) = 1 => result[t] = Return(<<found[1]>>)
                     /\ Len(found) > 1 =>
                          result[t] = InfoGatherError(
                              SeveralMappings(MatrixId(lp, dom), Len(found), Join(names, NL)))

\* C6: for every well-formed @localpart:fedora.im the resolution does what
\* the direct lookup of localpart does: the same call, never a search, and
\* the same result and reply for the same answer of the directory service.
C6_HomeServerIsDirectLookup ==
    \A t \in Tasks : \A lp \in Localparts :
        ( /\ cmd[t].name \in UserCommands
          /\ ReachesChatLookup(cmd[t])
          /\ ChatIdentity(cmd[t]) = MatrixId(lp, HomeServer)
          /\ pc[t] # "ready" ) =>
            LET direct == catch_generic_fasjson_errors(fasjsonclient, get_person_by_username(lp))
            IN  /\ call[t].op # "search"
                /\ call[t] = direct.call
                /\ Waiting(t) <=> (direct.tag = "call" /\ ~Done(t))
                /\ Done(t) =>
                     result[t] = IF direct.tag = "call"
                                 THEN catch_ClientSetupError(
                                          get_person_by_username_resume(lp, answer[t]))
                                 ELSE direct

\* C6's case: a Matrix id of the home server whose localpart holds a colon
\* was resolved and the directory service answered.
C6_Witness ==
    \E t \in Tasks :
        /\ Done(t)
        /\ cmd[t].name = "hello"
        /\ cmd[t].formatted_body = <<>>
        /\ cmd[t].args[1] = MatrixId(<<"a", ":", "b">>, HomeServer)
        /\ answer[t].kind = "ok"
        /\ outcome[t].raised = ""

\* Command c with its plain-text argument replaced by u.
WithArgument(c, u) == Command(c.name, <<u>>, c.sender, c.formatted_body)

\* With exactly one mention, the mention alone is resolved: the call, the
\* result and the reply of task t are those of the mention, whatever the
\* plain-text argument is.
OnlyTheMention(t) ==
    LET m == Mentions(cmd[t])[1]
        alone == catch_generic_fasjson_errors(fasjsonclient, get_users_by_matrix_id(m))
    IN  /\ call[t] = alone.call
        /\ \A u \in RawUsernames :
               /\ HandlerBegin(fasjsonclient, WithArgument(cmd[t], u)) = alone
               /\ Done(t) =>
                    outcome[t] = HandlerEnd(WithArgument(cmd[t], u),
                                            IF alone.tag = "call"
                                            THEN LookupResume(WithArgument(cmd[t], u), alone.call, answer[t])
                                            ELSE alone)

\* With two or more mentions the lookup fails with "one username at a
\* time" and no directory call is issued.
SeveralMentionsFail(t) ==
    /\ ~Waiting(t)
    /\ call[t] = NoCall
    /\ Done(t) => result[t] = InfoGatherError(OneAtATime)

C8_WaitingDoesNotBlockOthers ==
    \A t, o \in Tasks : (t # o /\ Waiting(t) /\ pc[o] = "ready") => ENABLED Dispatch(o)

\* C9: _get_pagure_issue maps every response to one outcome: 200 to the
\* issue, 404 by the error code of its body, every other status, whatever
\* its body, to the error carrying the status.
C9_PagureStatusMapping ==
    \A t \in Tasks :
        ( /\ Done(t)
          /\ cmd[t].name \in IssueCommands
          /\ answer[t].kind = "response" ) =>
            LET st == answer[t].status_code
                js == answer[t].json
                project == ProjectOf(cmd[t])
                issue_id == IssueIdOf(cmd[t])
            IN  /\ (st = 200 /\ js.type = "dict") => result[t] = Return(<<js>>)
                /\ (st = 404 /\ js.type = "dict") =>
                     result[t] = InfoGatherError(
                        CASE js.error_code = "ENOPROJECT" ->
                               Message("Project {project} not found", <<project>>, <<>>)
                          [] js.error_code = "ENOISSUE" ->
                               Message("Issue #{issue_id} not found on {project} project",
                                       <<issue_id, project>>, <<>>)
                          [] OTHER ->
                               WordMessage("Issue querying Pagure: {error_code}: {error}",
                                           <<js.error_code, js.error>>))
                /\ st \notin {200, 404} =>
                     /\ result[t].tag = "raise"
                     /\ result[t].class = "InfoGatherError"
                     /\ result[t].message.nums = <<st>>

\* C10: members replies with the enumeration of every member for a group
\* of 200 or fewer members and with the count alone for 201 or more.
C10_MembersBoundary ==
    \A t \in Tasks :
        ( /\ Done(t)
          /\ cmd[t].name = "members"
          /\ answer[t].kind = "ok" ) =>
            LET ms == answer[t].result
                reply == outcome[t].replies[1]
            IN  /\ outcome[t].raised = ""
                /\ Len(outcome[t].replies) = 1
                /\ Len(ms) <= 200 =>
                     /\ reply.nums = <<>>
                     /\ reply.args = <<cmd[t].args[1]>> \o [i \in 1..Len(ms) |-> ms[i].username]
                /\ Len(ms) >= 201 =>
                     /\ reply.nums = <<Len(ms)>>
                     /\ reply.args = <<cmd[t].args[1]>>

\* C10's case: a group of exactly 201 members got the count-only reply.
C10_Witness ==
    \E t \in Tasks :
        /\ Done(t)
        /\ cmd[t].name = "members"
        /\ answer[t].kind = "ok"
        /\ Len(answer[t].result) = 201
        /\ outcome[t].replies[1].nums = <<201>>

Whitespace == {" ", "\t", "\n"}

\* The whitespace-separated tokens of s: its maximal runs of characters
\* that are no whitespace.
RECURSIVE WhitespaceTokens(_)
WhitespaceTokens(s) ==
    IF s = <<>> THEN <<>>
    ELSE IF s[1] \in Whitespace THEN WhitespaceTokens(Tail(s))
    ELSE LET ws == {i \in 1..Len(s) : s[i] \in Whitespace}
             e  == IF ws = {} THEN Len(s) + 1 ELSE Min(ws)
         IN  <<Slice(s, 1, e - 1)>> \o WhitespaceTokens(Slice(s, e, Len(s)))

\* C11: without a rich-text mention, an argument of more than one
\* whitespace-separated token (any whitespace, tabs and repeated spaces
\* too) fails with AmbiguousMatch, and an argument of exactly one token
\* (leading or trailing whitespace or not) is classified and resolved as
\* that token.
C11_WhitespaceSplit ==
    \A t \in Tasks :
        ( /\ fasjsonclient = "client"
          /\ cmd[t].name \in UserCommands
          /\ Mentions(cmd[t]) = <<>>
          /\ pc[t] # "ready" ) =>
            LET tokens == WhitespaceTokens(PlainArgument(cmd[t]))
                single == WithArgument(cmd[t], tokens[1])
                begin  == HandlerBegin(fasjsonclient, single)
            IN  /\ Len(tokens) > 1 => SeveralMentionsFail(t)
                /\ Len(tokens) = 1 =>
                     /\ call[t] = begin.call
                     /\ Done(t) =>
                          result[t] = IF begin.tag = "call"
                                      THEN LookupResume(single, begin.call, answer[t])
                                      ELSE begin

=============================================================================
